---- MODULE Spec2Model ----
(***************************************************************************)
(* Document analysis and trend pipeline of the smart document analyser:    *)
(* the AI service (analysis, fallback analysis, embeddings), the topic     *)
(* timeline, and the upload / background-processing / re-process routes    *)
(* acting on the document store.                                           *)
(*                                                                         *)
(* Conventions.  A text is the sequence of its whitespace-delimited tokens *)
(* (no leading or trailing whitespace); a token is a sequence of           *)
(* one-character strings.  A JavaScript number that need not be an integer *)
(* is an exact fraction [n, d].  A JSON value is a record tagged by t.     *)
(***************************************************************************)
EXTENDS Integers, Sequences, FiniteSets, TLC

VARIABLES
    \* --- AI service called on its own (SpecService)
    svcText, svcFileName, svcKey, svcCompletion, svcEmbedResponse,
    svcAnalysis, svcEmbeddings,
    \* --- one topic receiving timeline entries (SpecTopic)
    topic, topicAdds,
    \* --- the pipeline (Spec)
    env, documents, users, uploadReq, task, procReq, delReq, history,
    \* --- the stored topics and the requests acting on them (SpecTopicStore)
    topicStore, topicReq,
    \* --- calculateSimilarity called on two documents (SpecSimilarity)
    simThis, simOther, simResult,
    \* --- compareDocuments called on two texts (SpecCompare)
    cmpDoc1Text, cmpDoc2Text, cmpResult

svcVars == <<svcText, svcFileName, svcKey, svcCompletion, svcEmbedResponse,
             svcAnalysis, svcEmbeddings>>

topicVars == <<topic, topicAdds>>

pipeVars == <<env, documents, users, uploadReq, task, procReq, delReq, history>>

storeVars == <<topicStore, topicReq>>

simVars == <<simThis, simOther, simResult>>

cmpVars == <<cmpDoc1Text, cmpDoc2Text, cmpResult>>

vars == <<svcVars, topicVars, pipeVars, storeVars, simVars, cmpVars>>

(***************************************************************************)
(* Numbers                                                                 *)
(***************************************************************************)
Min(a, b) == IF a <= b THEN a ELSE b

Max(a, b) == IF a >= b THEN a ELSE b

RECURSIVE GCD(_, _)
GCD(a, b) == IF b = 0 THEN a ELSE GCD(b, a % b)

Abs(a) == IF a < 0 THEN -a ELSE a

\* The number n/d (d > 0), in lowest terms: equal numbers are equal records.
Frac(n, d) ==
    LET g == GCD(Abs(n), d)
    IN  [t |-> "num", n |-> n \div g, d |-> d \div g]

FracLeq(a, b) == a.n * b.d <= b.n * a.d

FracMin(a, b) == IF FracLeq(a, b) THEN a ELSE b

FracNeg(a) == [t |-> "num", n |-> -a.n, d |-> a.d]

\* Math.ceil(a / b) for integers a >= 0, b > 0
CeilDiv(a, b) == (a + b - 1) \div b

(***************************************************************************)
(* Characters and tokens                                                   *)
(***************************************************************************)
UpperSeq == <<"A","B","C","D","E","F","G","H","I","J","K","L","M",
              "N","O","P","Q","R","S","T","U","V","W","X","Y","Z">>

LowerSeq == <<"a","b","c","d","e","f","g","h","i","j","k","l","m",
              "n","o","p","q","r","s","t","u","v","w","x","y","z">>

DigitSeq == <<"0","1","2","3","4","5","6","7","8","9">>

Range(s) == {s[i] : i \in DOMAIN s}

\* String.prototype.toLowerCase, one character
toLowerChar(c) ==
    IF c \in Range(UpperSeq)
    THEN LowerSeq[CHOOSE i \in DOMAIN UpperSeq : UpperSeq[i] = c]
    ELSE c

toLowerCase(w) == [i \in 1..Len(w) |-> toLowerChar(w[i])]

\* the regular-expression class \w
IsWordChar(c) == c \in Range(UpperSeq) \cup Range(LowerSeq) \cup Range(DigitSeq) \cup {"_"}

\* .replace(/[^\w\s]/g, '') on one token
StripNonWord(w) == SelectSeq(w, IsWordChar)

\* A property key that is an array index (a canonical decimal numeral; nine
\* digits keep it below 2^32 - 1).  Object.entries lists such keys first, in
\* ascending numeric order.
IsArrayIndex(w) ==
    /\ Len(w) > 0
    /\ \A i \in 1..Len(w) : w[i] \in Range(DigitSeq)
    /\ (Len(w) > 1 => w[1] # "0")
    /\ Len(w) <= 9

\* (haystack.match(new RegExp(p, 'g')) || []).length within one token:
\* non-overlapping occurrences, scanning from the left
RECURSIVE MatchCountFrom(_, _, _)
MatchCountFrom(p, w, i) ==
    IF i + Len(p) - 1 > Len(w) THEN 0
    ELSE IF SubSeq(w, i, i + Len(p) - 1) = p
         THEN 1 + MatchCountFrom(p, w, i + Len(p))
         ELSE MatchCountFrom(p, w, i + 1)

\* the sum of a sequence of integers, by halves
RECURSIVE SumSeq(_)
SumSeq(s) ==
    IF Len(s) = 0 THEN 0
    ELSE IF Len(s) = 1 THEN s[1]
    ELSE LET h == Len(s) \div 2
         IN  SumSeq(SubSeq(s, 1, h)) + SumSeq(SubSeq(s, h + 1, Len(s)))

\* occurrences of pattern p in the whole (lowercased) text; the patterns hold
\* no whitespace, so every occurrence lies inside one token
MatchCount(p, lowerText) ==
    SumSeq([i \in 1..Len(lowerText) |-> MatchCountFrom(p, lowerText[i], 1)])

\* text.split(/\s+/).length ("" splits into one empty string)
WordCount(text) == IF Len(text) = 0 THEN 1 ELSE Len(text)

(***************************************************************************)
(* JSON values                                                             *)
(***************************************************************************)
JStr(s) == [t |-> "str", s |-> s]

JWord(w) == [t |-> "word", w |-> w]

JNull == [t |-> "null"]

JUndefined == [t |-> "undefined"]

JArr(a) == [t |-> "arr", a |-> a]

JObj(o) == [t |-> "obj", o |-> o]

\* obj?.field : undefined when obj is null or undefined or lacks the field
OptGet(v, f) ==
    IF v.t = "obj" /\ f \in DOMAIN v.o THEN v.o[f] ELSE JUndefined

\* JavaScript truthiness
Truthy(v) ==
    CASE v.t = "undefined" -> FALSE
      [] v.t = "null" -> FALSE
      [] v.t = "num" -> v.n # 0
      [] v.t = "str" -> v.s # ""
      [] OTHER -> TRUE

\* a || b
OrElse(a, b) == IF Truthy(a) THEN a ELSE b

(***************************************************************************)
(* AIService.generateSimulatedAnalysis                                     *)
(***************************************************************************)
commonWords ==
    { <<"t","h","e">>, <<"a">>, <<"a","n">>, <<"a","n","d">>, <<"o","r">>,
      <<"b","u","t">>, <<"i","n">>, <<"o","n">>, <<"a","t">>, <<"t","o">>,
      <<"f","o","r">>, <<"o","f">>, <<"w","i","t","h">>, <<"b","y">>,
      <<"i","s">>, <<"a","r","e">>, <<"w","a","s">>, <<"w","e","r","e">>,
      <<"b","e">>, <<"b","e","e","n">>, <<"h","a","v","e">>, <<"h","a","s">>,
      <<"h","a","d">>, <<"d","o">>, <<"d","o","e","s">>, <<"d","i","d">>,
      <<"w","i","l","l">>, <<"w","o","u","l","d">>, <<"c","o","u","l","d">>,
      <<"s","h","o","u","l","d">>, <<"m","a","y">>, <<"m","i","g","h","t">>,
      <<"c","a","n">>, <<"t","h","i","s">>, <<"t","h","a","t">>,
      <<"t","h","e","s","e">>, <<"t","h","o","s","e">> }

positiveWords ==
    << <<"g","o","o","d">>, <<"g","r","e","a","t">>,
       <<"e","x","c","e","l","l","e","n","t">>, <<"a","m","a","z","i","n","g">>,
       <<"w","o","n","d","e","r","f","u","l">>, <<"p","o","s","i","t","i","v","e">>,
       <<"s","u","c","c","e","s","s">>, <<"a","c","h","i","e","v","e">>,
       <<"b","e","n","e","f","i","t">>, <<"i","m","p","r","o","v","e">> >>

negativeWords ==
    << <<"b","a","d">>, <<"t","e","r","r","i","b","l","e">>,
       <<"a","w","f","u","l">>, <<"n","e","g","a","t","i","v","e">>,
       <<"f","a","i","l">>, <<"p","r","o","b","l","e","m">>,
       <<"i","s","s","u","e">>, <<"d","i","f","f","i","c","u","l","t">>,
       <<"c","h","a","l","l","e","n","g","e">>, <<"c","o","n","c","e","r","n">> >>

\* text.toLowerCase().replace(/[^\w\s]/g, '').split(/\s+/).filter(...)
FilteredWords(text) ==
    SelectSeq([i \in 1..Len(text) |-> StripNonWord(toLowerCase(text[i]))],
              LAMBDA w : Len(w) > 3 /\ w \notin commonWords)

\* wordFreq[word]
WordFreq(words, w) == Cardinality({i \in 1..Len(words) : words[i] = w})

\* the distinct elements of s in the order of their first occurrence
FirstOccurrences(s) ==
    LET firsts == {i \in 1..Len(s) : \A j \in 1..(i - 1) : s[j] # s[i]}
    IN  [k \in 1..Cardinality(firsts) |->
            s[CHOOSE i \in firsts : Cardinality({j \in firsts : j < i}) = k - 1]]

DigitValue(c) == (CHOOSE i \in DOMAIN DigitSeq : DigitSeq[i] = c) - 1

RECURSIVE NumericValue(_)
NumericValue(w) ==
    IF Len(w) = 0 THEN 0
    ELSE 10 * NumericValue(SubSeq(w, 1, Len(w) - 1)) + DigitValue(w[Len(w)])

RECURSIVE AscendingKeys(_)
AscendingKeys(S) ==
    IF S = {} THEN <<>>
    ELSE LET m == CHOOSE x \in S : \A y \in S : NumericValue(x) <= NumericValue(y)
         IN  <<m>> \o AscendingKeys(S \ {m})

\* The key order of Object.entries(wordFreq): array-index keys ascending,
\* then the other keys in the order they were first assigned.
ObjectKeys(words) ==
    AscendingKeys({w \in Range(words) : IsArrayIndex(w)})
        \o SelectSeq(FirstOccurrences(words), LAMBDA w : ~IsArrayIndex(w))

\* .sort(([,a], [,b]) => b - a): descending by count, stable: a key comes
\* after the keys of a greater count and the earlier keys of its own count
SortByCountDesc(keys, words) ==
    LET count == [i \in 1..Len(keys) |-> WordFreq(words, keys[i])]
        place(i) == 1 + Cardinality({j \in 1..Len(keys) :
                                        \/ count[j] > count[i]
                                        \/ count[j] = count[i] /\ j < i})
    IN  [p \in 1..Len(keys) |-> keys[CHOOSE i \in 1..Len(keys) : place(i) = p]]

\* a slice that keeps the whole array
Slice0Whole(s, n) == s

\* array.slice(0, n)
Slice0(s, n) == SubSeq(s, 1, Min(n, Len(s)))

SimulatedKeywords(text) ==
    LET words == FilteredWords(text)
    IN  Slice0(SortByCountDesc(ObjectKeys(words), words), 8)

positiveCount(text) ==
    LET lowerText == [i \in 1..Len(text) |-> toLowerCase(text[i])]
    IN  SumSeq([i \in 1..Len(positiveWords) |-> MatchCount(positiveWords[i], lowerText)])

negativeCount(text) ==
    LET lowerText == [i \in 1..Len(text) |-> toLowerCase(text[i])]
    IN  SumSeq([i \in 1..Len(negativeWords) |-> MatchCount(negativeWords[i], lowerText)])

\* the sentiment without the bound of 0.8 on the score
SimulatedSentimentUncapped(text) ==
    LET pos == positiveCount(text)
        neg == negativeCount(text)
    IN  IF pos > neg
        THEN [score |-> Frac(pos, pos + neg + 1),
              label |-> JStr("positive"), confidence |-> Frac(7, 10)]
        ELSE IF neg > pos
        THEN [score |-> FracNeg(Frac(neg, pos + neg + 1)),
              label |-> JStr("negative"), confidence |-> Frac(7, 10)]
        ELSE [score |-> Frac(0, 1), label |-> JStr("neutral"),
              confidence |-> Frac(7, 10)]

SimulatedSentiment(text) ==
    LET pos == positiveCount(text)
        neg == negativeCount(text)
    IN  IF pos > neg
        THEN [score |-> FracMin(Frac(4, 5), Frac(pos, pos + neg + 1)),
              label |-> JStr("positive"), confidence |-> Frac(7, 10)]
        ELSE IF neg > pos
        THEN [score |-> FracNeg(FracMin(Frac(4, 5), Frac(neg, pos + neg + 1))),
              label |-> JStr("negative"), confidence |-> Frac(7, 10)]
        ELSE [score |-> Frac(0, 1), label |-> JStr("neutral"),
              confidence |-> Frac(7, 10)]

\* A templated summary string is the template's name and the values put in it.
Tpl(name, args) == [t |-> "tpl", name |-> name, args |-> args]

\* fileName is "" when the caller passed none (fileName || ...)
generateSimulatedAnalysis(text, fileName) ==
    LET wordCount == WordCount(text)
        readingTime == CeilDiv(wordCount, 200)
        keywords == SimulatedKeywords(text)
        sentiment == SimulatedSentiment(text)
        name == IF fileName = "" THEN "document" ELSE fileName
    IN  [summary |->
            [short |-> Tpl("short", <<JStr(name), Frac(wordCount, 1)>>),
             medium |-> Tpl("medium", <<Frac(wordCount, 1), sentiment.label>>),
             detailed |-> Tpl("detailed", <<Frac(wordCount, 1), Frac(readingTime, 1),
                                           sentiment.label>>)],
         sentiment |-> sentiment,
         keywords |-> [i \in 1..Len(keywords) |-> JWord(keywords[i])],
         topics |-> [i \in 1..Min(3, Len(keywords)) |-> JWord(keywords[i])],
         entities |-> << JObj([name |-> JStr(IF fileName = "" THEN "Document" ELSE fileName),
                               type |-> JStr("MISC"),
                               confidence |-> Frac(4, 5)]) >>,
         readingTime |-> readingTime,
         complexity |-> JStr(IF wordCount > 1000 THEN "complex"
                             ELSE IF wordCount > 300 THEN "moderate" ELSE "simple"),
         language |-> JStr("en")]

(***************************************************************************)
(* AIService.analyzeDocument                                               *)
(*                                                                         *)
(* key: whether OPENAI_API_KEY is configured.  completion: what the one    *)
(* remote call does: it throws, or it answers with no content, with text   *)
(* that is not JSON, or with JSON text (value: the parsed JSON).           *)
(***************************************************************************)
Returned(v) == [outcome |-> "returned", value |-> v]

Thrown(e) == [outcome |-> "thrown", error |-> e]

NotCalled == [outcome |-> "none"]

\* the object literal of the return statement; analysis is the parsed JSON
BuildAnalysis(analysis, text) ==
    LET summary == OptGet(analysis, "summary")
        sentiment == OptGet(analysis, "sentiment")
        keywords == OptGet(analysis, "keywords")
        topics == OptGet(analysis, "topics")
        entities == OptGet(analysis, "entities")
    IN  [summary |->
            [short |-> OrElse(OptGet(summary, "short"), JStr("Summary not available")),
             medium |-> OrElse(OptGet(summary, "medium"), JStr("Summary not available")),
             detailed |-> OrElse(OptGet(summary, "detailed"), JStr("Summary not available"))],
         sentiment |->
            [score |-> OrElse(OptGet(sentiment, "score"), Frac(0, 1)),
             label |-> OrElse(OptGet(sentiment, "label"), JStr("neutral")),
             confidence |-> OrElse(OptGet(sentiment, "confidence"), Frac(1, 2))],
         keywords |-> IF keywords.t = "arr" THEN Slice0(keywords.a, 10) ELSE <<>>,
         topics |-> IF topics.t = "arr" THEN Slice0(topics.a, 5) ELSE <<>>,
         entities |-> IF entities.t = "arr" THEN Slice0(entities.a, 10) ELSE <<>>,
         readingTime |-> CeilDiv(WordCount(text), 200),
         complexity |-> OrElse(OptGet(analysis, "complexity"), JStr("moderate")),
         language |-> OrElse(OptGet(analysis, "language"), JStr("en"))]

\* the body of the try block after the key check
RemoteAnalysis(text, completion) ==
    CASE completion.kind = "throws" -> Thrown(completion.error)
      [] completion.kind = "empty" -> Thrown("No analysis received from OpenAI")
      [] completion.kind = "text" -> Thrown("Invalid JSON response from AI service")
      [] completion.kind = "json" ->
            \* reading a property of null is a TypeError
            IF completion.value.t = "null" THEN Thrown("TypeError")
            ELSE Returned(BuildAnalysis(completion.value, text))

\* a catch block that passes the error on to the caller
analyzeDocumentRethrowing(text, fileName, key, completion) ==
    IF ~key THEN Returned(generateSimulatedAnalysis(text, fileName))
    ELSE RemoteAnalysis(text, completion)

analyzeDocument(text, fileName, key, completion) ==
    IF ~key THEN Returned(generateSimulatedAnalysis(text, fileName))
    ELSE LET r == RemoteAnalysis(text, completion)
         IN  IF r.outcome = "returned" THEN r
             ELSE \* catch (error): fall back
                  Returned(generateSimulatedAnalysis(text, fileName))

(***************************************************************************)
(* AIService.generateEmbeddings                                            *)
(*                                                                         *)
(* A vector is kept as its length and where it came from.  response: what  *)
(* openai.embeddings.create does: it throws, or answers; data is the       *)
(* answer's data array, each entry holding an embedding or none.           *)
(***************************************************************************)
EmbeddingDimensions == 1536

Vector(len, from) == [len |-> len, from |-> from]

\* Array.from({ length: 1536 }, () => Math.random() * 2 - 1)
SimulatedEmbeddings == Vector(EmbeddingDimensions, "random")

\* the body of the try block after the key check
RemoteEmbeddings(response) ==
    CASE response.kind = "throws" -> Thrown("provider")
      [] response.kind = "nodata" -> Thrown("TypeError")
      [] response.kind = "data" ->
            IF Len(response.data) > 0 /\ response.data[1].has
            THEN Returned(Vector(response.data[1].len, "provider"))
            ELSE Returned(Vector(0, "empty"))

generateEmbeddings(key, response) ==
    IF ~key THEN Returned(SimulatedEmbeddings)
    ELSE LET r == RemoteEmbeddings(response)
         IN  IF r.outcome = "returned" THEN r ELSE Returned(SimulatedEmbeddings)

(***************************************************************************)
(* Topic.addTimelineEntry                                                  *)
(*                                                                         *)
(* An entry is [documentId, date, sentiment]; date is its time in          *)
(* milliseconds, sentiment a fraction.  The sentiments used are multiples  *)
(* of 1/2, on which the floating-point sums and products of the method are *)
(* exact, so that the exact arithmetic here is the method's arithmetic.    *)
(***************************************************************************)
FracAdd(a, b) == Frac(a.n * b.d + b.n * a.d, a.d * b.d)

FracMul(a, b) == Frac(a.n * b.n, a.d * b.d)

FracDivInt(a, k) == Frac(a.n, a.d * k)

RECURSIVE FracSum(_)
FracSum(s) == IF Len(s) = 0 THEN Frac(0, 1) ELSE FracAdd(s[1], FracSum(Tail(s)))

\* Math.round: the nearest integer, halves towards plus infinity
MathRound(a) == (2 * a.n + a.d) \div (2 * a.d)

\* a sort that leaves the entries in the order they were added
SortKeepOrder(s, dates) == s

RECURSIVE ReverseSeq(_)
ReverseSeq(s) == IF Len(s) = 0 THEN s ELSE Append(ReverseSeq(Tail(s)), s[1])

\* a sort by date that turns the order of the entries of one date around
RECURSIVE SortTiesReversed(_, _)
SortTiesReversed(s, dates) ==
    IF dates = {} THEN <<>>
    ELSE LET newest == CHOOSE d \in dates : \A e \in dates : e <= d
         IN  ReverseSeq(SelectSeq(s, LAMBDA t : t.date = newest))
                 \o SortTiesReversed(s, dates \ {newest})

\* timeline.sort((a, b) => b.date.getTime() - a.date.getTime()):
\* newest first, stable
RECURSIVE SortByDateDesc(_, _)
SortByDateDesc(s, dates) ==
    IF dates = {} THEN <<>>
    ELSE LET newest == CHOOSE d \in dates : \A e \in dates : e <= d
         IN  SelectSeq(s, LAMBDA t : t.date = newest)
                 \o SortByDateDesc(s, dates \ {newest})

\* the activity component without its cap
activityScoreUncapped(timeline) == Len(timeline) * 2

activityScore(timeline) == Min(Len(timeline) * 2, 50)

sentimentScore(timeline) ==
    LET recentEntries == Slice0(timeline, 5)
        avgSentiment ==
            FracDivInt(FracSum([i \in 1..Len(recentEntries) |-> recentEntries[i].sentiment]),
                       Len(recentEntries))
    IN  FracMul(FracAdd(avgSentiment, Frac(1, 1)), Frac(25, 1))

popularityScore(timeline) ==
    MathRound(FracAdd(Frac(activityScore(timeline), 1), sentimentScore(timeline)))

\* addTimelineEntry with the trend data taken before the sort
addTimelineEntryTrendFirst(tp, entry) ==
    LET pushed == Append(tp.timeline, entry)
        timeline == SortByDateDesc(pushed, {pushed[i].date : i \in 1..Len(pushed)})
    IN  [tp EXCEPT
            !.timeline = timeline,
            !.trendData =
                [frequency |-> Len(pushed),
                 sentimentTrend |->
                     [i \in 1..Min(10, Len(pushed)) |-> pushed[i].sentiment],
                 popularityScore |-> popularityScore(timeline)]]

addTimelineEntry(tp, entry) ==
    LET pushed == Append(tp.timeline, entry)
        timeline == SortByDateDesc(pushed, {pushed[i].date : i \in 1..Len(pushed)})
    IN  [tp EXCEPT
            !.timeline = timeline,
            !.trendData =
                [frequency |-> Len(timeline),
                 sentimentTrend |->
                     [i \in 1..Min(10, Len(timeline)) |-> timeline[i].sentiment],
                 popularityScore |-> popularityScore(timeline)]]

(***************************************************************************)
(* Inputs of the service                                                   *)
(***************************************************************************)
\* ""
TextEmpty == <<>>

\* "This is a great, great, wonderful product"
TextGreat ==
    << <<"T","h","i","s">>, <<"i","s">>, <<"a">>, <<"g","r","e","a","t",",">>,
       <<"g","r","e","a","t",",">>, <<"w","o","n","d","e","r","f","u","l">>,
       <<"p","r","o","d","u","c","t">> >>

\* "Awful problem: tests fail"
TextBad ==
    << <<"A","w","f","u","l">>, <<"p","r","o","b","l","e","m",":">>,
       <<"t","e","s","t","s">>, <<"f","a","i","l">> >>

\* "docs 2024 report report"
TextDigits ==
    << <<"d","o","c","s">>, <<"2","0","2","4">>, <<"r","e","p","o","r","t">>,
       <<"r","e","p","o","r","t">> >>

\* "good docs, bad docs"
TextMixed ==
    << <<"g","o","o","d">>, <<"d","o","c","s",",">>, <<"b","a","d">>,
       <<"d","o","c","s">> >>

\* "alpha bravo charlie delta echoes foxtrot golf hotel india juliet kilo"
TextLong ==
    << <<"a","l","p","h","a">>,
       <<"b","r","a","v","o">>,
       <<"c","h","a","r","l","i","e">>,
       <<"d","e","l","t","a">>,
       <<"e","c","h","o","e","s">>,
       <<"f","o","x","t","r","o","t">>,
       <<"g","o","l","f">>,
       <<"h","o","t","e","l">>,
       <<"i","n","d","i","a">>,
       <<"j","u","l","i","e","t">>,
       <<"k","i","l","o">> >>

\* "Good great excellent amazing wonderful"
TextPraise ==
    << <<"G","o","o","d">>, <<"g","r","e","a","t">>,
       <<"e","x","c","e","l","l","e","n","t">>, <<"a","m","a","z","i","n","g">>,
       <<"w","o","n","d","e","r","f","u","l">> >>

Texts == {TextEmpty, TextGreat, TextBad, TextDigits, TextMixed, TextLong, TextPraise}

FileNames == {"", "report.txt", "notes.pdf"}

JStrings(prefix, n) == [i \in 1..n |-> JStr(prefix[i])]

KeywordNames == <<"k1", "k2", "k3", "k4", "k5", "k6", "k7", "k8", "k9", "k10", "k11", "k12">>

EntityOf(s) == JObj([name |-> JStr(s), type |-> JStr("PERSON"), confidence |-> Frac(9, 10)])

\* the JSON the prompt asks for
PayloadFull ==
    JObj([summary |-> JObj([short |-> JStr("s"), medium |-> JStr("m"),
                            detailed |-> JStr("d")]),
          sentiment |-> JObj([score |-> Frac(1, 2), label |-> JStr("positive"),
                              confidence |-> Frac(4, 5)]),
          keywords |-> JArr(JStrings(KeywordNames, 3)),
          topics |-> JArr(JStrings(KeywordNames, 2)),
          entities |-> JArr(<<EntityOf("Ada")>>),
          complexity |-> JStr("simple"),
          language |-> JStr("en")])

\* more list entries than the caps
PayloadLong ==
    JObj([summary |-> JObj([short |-> JStr("s")]),
          sentiment |-> JObj([score |-> Frac(0, 1), label |-> JStr("neutral"),
                              confidence |-> Frac(0, 1)]),
          keywords |-> JArr(JStrings(KeywordNames, 12)),
          topics |-> JArr(JStrings(KeywordNames, 6)),
          entities |-> JArr([i \in 1..11 |-> EntityOf(KeywordNames[i])])])

\* fields of the wrong type and values out of range
PayloadOdd ==
    JObj([summary |-> JStr("just a string"),
          sentiment |-> JObj([score |-> Frac(5, 1), label |-> JStr("mixed"),
                              confidence |-> Frac(2, 1)]),
          keywords |-> JStr("k1, k2"),
          topics |-> JNull])

PayloadEmptyObject == JObj(<<>>)

Payloads == {PayloadFull, PayloadLong, PayloadOdd, PayloadEmptyObject, JNull,
             Frac(42, 1), JArr(<<>>)}

CompletionOutcomes ==
    {[kind |-> "throws", error |-> e] : e \in {"provider_error", "rate_limit", "quota"}}
        \cup {[kind |-> "empty"], [kind |-> "text"]}
        \cup {[kind |-> "json", value |-> v] : v \in Payloads}

\* a dimension other than 1536, for an answer of the wrong size
OtherDimensions == 100

EmbedResponses ==
    {[kind |-> "throws"], [kind |-> "nodata"],
     [kind |-> "data", data |-> <<>>],
     [kind |-> "data", data |-> <<[has |-> FALSE, len |-> 0]>>],
     [kind |-> "data", data |-> <<[has |-> TRUE, len |-> EmbeddingDimensions]>>],
     [kind |-> "data", data |-> <<[has |-> TRUE, len |-> OtherDimensions]>>]}

(***************************************************************************)
(* SpecService: the service's two entry points on every input              *)
(***************************************************************************)
TopicIdle == [timeline |-> <<>>,
              trendData |-> [frequency |-> 0, sentimentTrend |-> <<>>,
                             popularityScore |-> 0]]

SvcIdle ==
    /\ svcText = TextEmpty /\ svcFileName = "" /\ svcKey = FALSE
    /\ svcCompletion = [kind |-> "empty"] /\ svcEmbedResponse = [kind |-> "throws"]
    /\ svcAnalysis = NotCalled /\ svcEmbeddings = NotCalled

TopicInitIdle == topic = TopicIdle /\ topicAdds = 0

PipeIdle ==
    /\ env = <<>> /\ documents = <<>> /\ users = <<>> /\ uploadReq = <<>>
    /\ task = <<>> /\ procReq = <<>> /\ delReq = <<>> /\ history = <<>>

\* no topic is stored and no request on the topic collection is under way
StoreIdle == topicStore = <<>> /\ topicReq = <<>>

SimIdle == simThis = NotCalled /\ simOther = NotCalled /\ simResult = NotCalled

CmpIdle == cmpDoc1Text = <<>> /\ cmpDoc2Text = <<>> /\ cmpResult = NotCalled

SvcInit ==
    /\ svcText \in Texts
    /\ svcFileName \in FileNames
    /\ svcKey \in BOOLEAN
    /\ svcCompletion \in CompletionOutcomes
    /\ svcEmbedResponse \in EmbedResponses
    /\ svcAnalysis = NotCalled
    /\ svcEmbeddings = NotCalled
    /\ TopicInitIdle
    /\ PipeIdle
    /\ StoreIdle
    /\ SimIdle
    /\ CmpIdle

SvcAnalyze ==
    /\ svcAnalysis = NotCalled
    /\ svcAnalysis' = analyzeDocument(svcText, svcFileName, svcKey, svcCompletion)
    /\ UNCHANGED <<svcText, svcFileName, svcKey, svcCompletion, svcEmbedResponse,
                   svcEmbeddings, topicVars, pipeVars, storeVars, simVars, cmpVars>>

SvcEmbed ==
    /\ svcEmbeddings = NotCalled
    /\ svcEmbeddings' = generateEmbeddings(svcKey, svcEmbedResponse)
    /\ UNCHANGED <<svcText, svcFileName, svcKey, svcCompletion, svcEmbedResponse,
                   svcAnalysis, topicVars, pipeVars, storeVars, simVars, cmpVars>>

SvcNext == SvcAnalyze \/ SvcEmbed

SpecService == SvcInit /\ [][SvcNext]_vars

(***************************************************************************)
(* SpecTopic: timeline entries added to one topic, which is new or already *)
(* holds BulkEntries entries                                               *)
(***************************************************************************)
MaxAdds == 6

MaxDate == 2

BulkEntries == 24

Sentiments == {Frac(-1, 1), Frac(1, 2), Frac(1, 1)}

Dates == 1..MaxDate

RECURSIVE AddMany(_, _, _)
AddMany(tp, entry, k) ==
    IF k = 0 THEN tp ELSE AddMany(addTimelineEntry(tp, entry), entry, k - 1)

TopicInit ==
    /\ topic \in {TopicIdle}
           \cup {AddMany(TopicIdle, [documentId |-> "d0", date |-> 0, sentiment |-> s],
                         BulkEntries) : s \in Sentiments}
    /\ topicAdds = 0
    /\ SvcIdle
    /\ PipeIdle
    /\ StoreIdle
    /\ SimIdle
    /\ CmpIdle

TopicAdd ==
    /\ topicAdds < MaxAdds
    /\ \E date \in Dates, s \in Sentiments :
          topic' = addTimelineEntry(topic, [documentId |-> "d1", date |-> date,
                                            sentiment |-> s])
    /\ topicAdds' = topicAdds + 1
    /\ UNCHANGED <<svcVars, pipeVars, storeVars, simVars, cmpVars>>

TopicNext == TopicAdd

SpecTopic == TopicInit /\ [][TopicNext]_vars

(***************************************************************************)
(* The pipeline (Spec): uploads, the background task processDocumentAI,    *)
(* and the re-process route, acting on the document store.                 *)
(*                                                                         *)
(* documents: the stored documents, by id (an id outside the domain is not *)
(* stored).  users: the stored usage counters of the one account.          *)
(* uploadReq[d]: the upload request creating document d.  task[d]: the     *)
(* background task started for d.  procReq[r]: the r-th request to the     *)
(* re-process route.  Every awaited storage operation either takes effect  *)
(* or throws without effect.                                               *)
(***************************************************************************)
MaxDocs == 1

MaxProcessRequests == 2

Docs == 1..MaxDocs

Requests == 1..MaxProcessRequests

\* DELETE requests that arrive
MaxDeleteRequests == 1

DeleteRequests == 1..MaxDeleteRequests

FileSizes == {10}

\* a text of more than 200 and at most 225 words: "word word ... word"
ManyWords == 201

TextManyWords == [i \in 1..ManyWords |-> <<"w","o","r","d">>]

\* an uploaded file: the text extracted from it, its name and its size
Files ==
    [text : {TextGreat, TextEmpty, TextManyWords}, name : {"report.txt"},
     size : FileSizes]

PipeCompletions ==
    {[kind |-> "throws", error |-> "provider_error"],
     [kind |-> "json", value |-> PayloadFull]}

PipeEmbedResponses ==
    {[kind |-> "throws"],
     [kind |-> "data", data |-> <<>>],
     [kind |-> "data", data |-> <<[has |-> TRUE, len |-> EmbeddingDimensions]>>],
     [kind |-> "data", data |-> <<[has |-> TRUE, len |-> OtherDimensions]>>]}

AnalysisFields ==
    {"summary", "sentiment", "keywords", "topics", "entities", "embeddings",
     "readingTime"}

\* new Document({...}) with the schema's defaults
PipeUser == "u1"

NewDocument(file) ==
    [userId |-> PipeUser,
     processingStatus |-> "pending",
     extractedText |-> file.text,
     originalFileName |-> file.name,
     fileSize |-> file.size,
     wordCount |-> WordCount(file.text),
     summary |-> [short |-> JStr(""), medium |-> JStr(""), detailed |-> JStr("")],
     sentiment |-> [score |-> Frac(0, 1), label |-> JStr("neutral"),
                    confidence |-> Frac(0, 1)],
     keywords |-> <<>>,
     topics |-> <<>>,
     entities |-> <<>>,
     embeddings |-> Vector(0, "default"),
     readingTime |-> 0]

\* pre('save'): reading time from the word count, when that was modified
readingTimeHook(doc, wordCountModified) ==
    IF wordCountModified
    THEN [doc EXCEPT !.readingTime = CeilDiv(doc.wordCount, 225)]
    ELSE doc

\* pre('save'): embeddings, when present and not empty, have 1536 entries.
\* selected: whether the in-memory document holds the embeddings path.
embeddingsHook(doc, selected) ==
    IF selected /\ doc.embeddings.len > 0 /\ doc.embeddings.len # EmbeddingDimensions
    THEN Thrown("Embeddings vector must be exactly 1536 dimensions for OpenAI embeddings")
    ELSE Returned(doc)

\* the pre('save') hooks in the order they are registered
preSave(doc, wordCountModified, selected) ==
    embeddingsHook(readingTimeHook(doc, wordCountModified), selected)

UploadIdle == [pc |-> "idle"]

TaskNone == [pc |-> "none", text |-> <<>>, fileName |-> "",
             analysis |-> NotCalled, embeddings |-> NotCalled]

ProcIdle == [pc |-> "idle"]

DeleteIdle == [pc |-> "idle"]

NoSnapshot == [processingStatus |-> "none"]

HistoryInit == [runs |-> 0, written |-> {}, before |-> NoSnapshot,
                atResponse |-> [stored |-> "none", task |-> "none"]]

Init ==
    /\ env \in [key : BOOLEAN]
    /\ documents = <<>>
    /\ users = [documentsUploaded |-> 0, storageUsed |-> 0]
    /\ uploadReq = [d \in Docs |-> UploadIdle]
    /\ task = [d \in Docs |-> TaskNone]
    /\ procReq = [r \in Requests |-> ProcIdle]
    /\ delReq = [q \in DeleteRequests |-> DeleteIdle]
    /\ history = [d \in Docs |-> HistoryInit]
    /\ StoreIdle
    /\ SimIdle
    /\ CmpIdle
    /\ SvcIdle
    /\ TopicInitIdle

(***************************************************************************)
(* POST /api/documents/upload                                              *)
(***************************************************************************)
\* authMiddleware loads the account; the request carries a file
UploadBegin(d) ==
    /\ uploadReq[d].pc = "idle"
    /\ \E file \in Files :
          uploadReq' = [uploadReq EXCEPT ![d] =
                           [pc |-> "authed", user |-> users, file |-> file]]
    /\ UNCHANGED <<env, documents, users, task, procReq, history, delReq, svcVars, topicVars, storeVars, simVars, cmpVars>>

\* if (!req.file) return res.status(400)
UploadNoFile(d) ==
    /\ uploadReq[d].pc = "idle"
    /\ uploadReq' = [uploadReq EXCEPT ![d] = [pc |-> "responded", code |-> 400]]
    /\ UNCHANGED <<env, documents, users, task, procReq, history, delReq, svcVars, topicVars, storeVars, simVars, cmpVars>>

\* new Document({...}); await document.save()
UploadSaveDocument(d) ==
    /\ uploadReq[d].pc = "authed"
    /\ LET hooked == preSave(NewDocument(uploadReq[d].file), TRUE, TRUE)
       IN  \/ /\ hooked.outcome = "returned"
              /\ documents' = documents @@ (d :> hooked.value)
              /\ uploadReq' = [uploadReq EXCEPT ![d] =
                                  [pc |-> "docSaved", user |-> uploadReq[d].user,
                                   file |-> uploadReq[d].file,
                                   document |-> hooked.value]]
           \/ \* the save throws: asyncHandler passes the error on
              /\ documents' = documents
              /\ uploadReq' = [uploadReq EXCEPT ![d] =
                                  [pc |-> "responded", code |-> 500]]
    /\ UNCHANGED <<env, users, task, procReq, history, delReq, svcVars, topicVars, storeVars, simVars, cmpVars>>

\* req.user.documentsUploaded += 1; req.user.storageUsed += size;
\* await req.user.save(): the changed paths are written as they are in memory
UploadSaveUser(d) ==
    /\ uploadReq[d].pc = "docSaved"
    /\ LET user == [documentsUploaded |-> uploadReq[d].user.documentsUploaded + 1,
                    storageUsed |-> uploadReq[d].user.storageUsed
                                        + uploadReq[d].file.size]
       IN  \/ /\ users' = user
              /\ uploadReq' = [uploadReq EXCEPT ![d] =
                                  [pc |-> "userSaved", user |-> user,
                                   file |-> uploadReq[d].file,
                                   document |-> uploadReq[d].document]]
           \/ \* the save throws: the request ends before the task is started
              /\ users' = users
              /\ uploadReq' = [uploadReq EXCEPT ![d] =
                                  [pc |-> "responded", code |-> 500]]
    /\ UNCHANGED <<env, documents, task, procReq, history, delReq, svcVars, topicVars, storeVars, simVars, cmpVars>>

TaskEnded == {"completed", "failed", "rejected"}

\* what is stored of a document, for the record kept of each request
Snapshot(d) == IF d \in DOMAIN documents THEN documents[d] ELSE NoSnapshot

\* an upload that awaits processDocumentAI(...) before it responds
UploadRespondAwaiting(d) ==
    /\ uploadReq[d].pc = "userSaved"
    /\ \/ /\ task[d].pc = "none"
          /\ task' = [task EXCEPT ![d] =
                         [pc |-> "setProcessing", text |-> uploadReq[d].file.text,
                          fileName |-> uploadReq[d].file.name,
                          analysis |-> NotCalled, embeddings |-> NotCalled]]
          /\ uploadReq' = uploadReq
          /\ history' = [history EXCEPT ![d].before = Snapshot(d)]
       \/ /\ task[d].pc \in TaskEnded
          /\ task' = task
          /\ uploadReq' = [uploadReq EXCEPT ![d] =
                              [pc |-> "responded", code |-> 201,
                               document |-> uploadReq[d].document]]
          /\ history' = [history EXCEPT
                            ![d].atResponse =
                                [stored |-> Snapshot(d).processingStatus,
                                 task |-> task[d].pc]]
    /\ UNCHANGED <<env, documents, users, procReq, delReq, svcVars, topicVars, storeVars, simVars, cmpVars>>

\* processDocumentAI(...) is called and not awaited: it runs up to its first
\* await; then the response carries the in-memory document.
UploadRespond(d) ==
    /\ uploadReq[d].pc = "userSaved"
    /\ task' = [task EXCEPT ![d] =
                   [pc |-> "setProcessing", text |-> uploadReq[d].file.text,
                    fileName |-> uploadReq[d].file.name,
                    analysis |-> NotCalled, embeddings |-> NotCalled]]
    /\ uploadReq' = [uploadReq EXCEPT ![d] =
                        [pc |-> "responded", code |-> 201,
                         document |-> uploadReq[d].document]]
    /\ history' = [history EXCEPT
                      ![d].before = Snapshot(d),
                      ![d].atResponse = [stored |-> Snapshot(d).processingStatus,
                                         task |-> task'[d].pc]]
    /\ UNCHANGED <<env, documents, users, procReq, delReq, svcVars, topicVars, storeVars, simVars, cmpVars>>

(***************************************************************************)
(* processDocumentAI: one action per await                                 *)
(***************************************************************************)
\* namedEntitySchema: the paths of an entity and the values of its label
EntityPaths == {"text", "label", "confidence", "startPos", "endPos"}

EntityLabels ==
    {"PERSON", "ORG", "GPE", "DATE", "MONEY", "CARDINAL", "ORDINAL", "PERCENT",
     "TIME", "QUANTITY", "EVENT", "LAW", "PRODUCT", "WORK_OF_ART", "LANGUAGE",
     "FAC", "LOC", "NORP"}

\* The update casts each entity to the schema: a field that is no path of the
\* schema is dropped (strict mode); required, enum, min and max are
\* validators, and the update runs none.
CastEntities(entities) ==
    [i \in 1..Len(entities) |->
        JObj([f \in DOMAIN entities[i].o \cap EntityPaths |-> entities[i].o[f]])]

\* a findByIdAndUpdate that inserts the document when the id is not stored
findByIdAndUpdateUpsert(docs, d, update) ==
    IF d \in DOMAIN docs
    THEN [docs EXCEPT ![d] = [f \in DOMAIN docs[d] |->
                                 IF f \in DOMAIN update THEN update[f] ELSE docs[d][f]]]
    ELSE docs @@ (d :> update)

\* Document.findByIdAndUpdate(id, update): no save hooks, no validators;
\* an id that is not stored is left alone
findByIdAndUpdate(docs, d, update) ==
    IF d \in DOMAIN docs
    THEN [docs EXCEPT ![d] = [f \in DOMAIN docs[d] |->
                                 IF f \in DOMAIN update THEN update[f] ELSE docs[d][f]]]
    ELSE docs

\* await Document.findByIdAndUpdate(documentId, {processingStatus: 'processing'})
TaskSetProcessing(d) ==
    /\ task[d].pc = "setProcessing"
    /\ \/ /\ documents' = findByIdAndUpdate(documents, d,
                                            [processingStatus |-> "processing"])
          /\ task' = [task EXCEPT ![d].pc = "analyze"]
       \/ /\ documents' = documents
          /\ task' = [task EXCEPT ![d].pc = "catch"]
    /\ UNCHANGED <<env, users, uploadReq, procReq, history, delReq, svcVars, topicVars, storeVars, simVars, cmpVars>>

\* const analysis = await AIService.analyzeDocument(text, fileName)
TaskAnalyze(d) ==
    /\ task[d].pc = "analyze"
    /\ \E completion \in PipeCompletions :
          LET r == analyzeDocument(task[d].text, task[d].fileName, env.key, completion)
          IN  task' = [task EXCEPT ![d].analysis = r,
                                   ![d].pc = IF r.outcome = "returned"
                                             THEN "embed" ELSE "catch"]
    /\ history' = [history EXCEPT ![d].runs = @ + 1]
    /\ UNCHANGED <<env, documents, users, uploadReq, procReq, delReq, svcVars, topicVars, storeVars, simVars, cmpVars>>

\* const embeddings = await AIService.generateEmbeddings(text)
TaskEmbed(d) ==
    /\ task[d].pc = "embed"
    /\ \E response \in PipeEmbedResponses :
          LET r == generateEmbeddings(env.key, response)
          IN  task' = [task EXCEPT ![d].embeddings = r,
                                   ![d].pc = IF r.outcome = "returned"
                                             THEN "setCompleted" ELSE "catch"]
    /\ UNCHANGED <<env, documents, users, uploadReq, procReq, history, delReq, svcVars, topicVars, storeVars, simVars, cmpVars>>

\* await Document.findByIdAndUpdate(documentId, {processingStatus: 'completed', ...})
TaskSetCompleted(d) ==
    /\ task[d].pc = "setCompleted"
    /\ \/ /\ documents' = findByIdAndUpdate(documents, d,
                 [processingStatus |-> "completed",
                  summary |-> task[d].analysis.value.summary,
                  sentiment |-> task[d].analysis.value.sentiment,
                  keywords |-> task[d].analysis.value.keywords,
                  topics |-> task[d].analysis.value.topics,
                  entities |-> CastEntities(task[d].analysis.value.entities),
                  embeddings |-> task[d].embeddings.value,
                  readingTime |-> task[d].analysis.value.readingTime])
          /\ task' = [task EXCEPT ![d].pc = "completed"]
          /\ history' = [history EXCEPT ![d].written = @ \cup AnalysisFields]
       \/ /\ documents' = documents
          /\ task' = [task EXCEPT ![d].pc = "catch"]
          /\ history' = history
    /\ UNCHANGED <<env, users, uploadReq, procReq, delReq, svcVars, topicVars, storeVars, simVars, cmpVars>>

\* catch: await Document.findByIdAndUpdate(documentId, {processingStatus: 'failed'});
\* when this update throws too, nothing handles the task's rejection
TaskCatch(d) ==
    /\ task[d].pc = "catch"
    /\ \/ /\ documents' = findByIdAndUpdate(documents, d,
                                            [processingStatus |-> "failed"])
          /\ task' = [task EXCEPT ![d].pc = "failed"]
       \/ /\ documents' = documents
          /\ task' = [task EXCEPT ![d].pc = "rejected"]
    /\ UNCHANGED <<env, users, uploadReq, procReq, history, delReq, svcVars, topicVars, storeVars, simVars, cmpVars>>

(***************************************************************************)
(* POST /api/analysis/process/:documentId                                  *)
(***************************************************************************)
\* Document.findOne(...): the embeddings path is not selected.  Requests
\* are numbered in the order they arrive.
ProcFind(r) ==
    /\ procReq[r].pc = "idle"
    /\ IF r = 1 THEN TRUE ELSE procReq[r - 1].pc # "idle"
    /\ \E d \in Docs :
          procReq' = [procReq EXCEPT ![r] =
                         IF d \in DOMAIN documents
                         THEN [pc |-> "loaded", doc |-> d,
                               document |-> [documents[d] EXCEPT
                                                !.embeddings = Vector(0, "unselected")]]
                         ELSE [pc |-> "responded", doc |-> d, code |-> 404]]
    /\ UNCHANGED <<env, documents, users, uploadReq, task, history, delReq, svcVars, topicVars, storeVars, simVars, cmpVars>>

\* document.processingStatus = 'processing'; await document.save();
\* then the timer is set and the response sent.  save() writes the paths
\* that changed in memory, and throws when the document is no longer stored.
ProcSave(r) ==
    /\ procReq[r].pc = "loaded"
    /\ LET d == procReq[r].doc
           document == [procReq[r].document EXCEPT !.processingStatus = "processing"]
           hooked == preSave(document, FALSE, FALSE)
           modified == procReq[r].document.processingStatus # "processing"
       IN  \/ /\ hooked.outcome = "returned"
              /\ IF modified THEN d \in DOMAIN documents ELSE TRUE
              /\ documents' = IF modified
                              THEN findByIdAndUpdate(documents, d,
                                       [processingStatus |-> "processing"])
                              ELSE documents
              /\ procReq' = [procReq EXCEPT ![r] =
                                [pc |-> "timer", doc |-> d, code |-> 200,
                                 document |-> hooked.value]]
           \/ \* the save throws: asyncHandler passes the error on, no timer
              /\ documents' = documents
              /\ procReq' = [procReq EXCEPT ![r] =
                                [pc |-> "responded", doc |-> d, code |-> 500]]
    /\ UNCHANGED <<env, users, uploadReq, task, history, delReq, svcVars, topicVars, storeVars, simVars, cmpVars>>

\* the setTimeout callback: placeholder results, await document.save();
\* when the save throws nothing handles the callback's rejection
ProcTimer(r) ==
    /\ procReq[r].pc = "timer"
    /\ LET d == procReq[r].doc
           update ==
               [processingStatus |-> "completed",
                summary |-> [short |-> JStr("This is a short summary placeholder."),
                             medium |-> JStr("This is a medium length summary placeholder with more details."),
                             detailed |-> JStr("This is a detailed summary placeholder with comprehensive analysis and insights.")],
                sentiment |-> [score |-> Frac(1, 10), label |-> JStr("positive"),
                               confidence |-> Frac(17, 20)],
                keywords |-> <<JStr("sample"), JStr("document"), JStr("analysis")>>,
                topics |-> <<JStr("General")>>]
           document == [f \in DOMAIN procReq[r].document |->
                           IF f \in DOMAIN update THEN update[f]
                           ELSE procReq[r].document[f]]
           hooked == preSave(document, FALSE, FALSE)
       IN  \/ /\ hooked.outcome = "returned"
              /\ d \in DOMAIN documents
              /\ documents' = findByIdAndUpdate(documents, d, update)
              /\ procReq' = [procReq EXCEPT ![r] =
                                [pc |-> "done", doc |-> d, code |-> 200,
                                 document |-> hooked.value]]
              /\ history' = [history EXCEPT
                                ![d].runs = @ + 1,
                                ![d].written = @ \cup (DOMAIN update \ {"processingStatus"})]
           \/ /\ documents' = documents
              /\ procReq' = [procReq EXCEPT ![r] =
                                [pc |-> "rejected", doc |-> d, code |-> 200,
                                 document |-> document]]
              /\ history' = [history EXCEPT ![d].runs = @ + 1]
    /\ UNCHANGED <<env, users, uploadReq, task, delReq, svcVars, topicVars, storeVars, simVars, cmpVars>>

(***************************************************************************)
(* DELETE /api/documents/:id                                               *)
(***************************************************************************)
\* authMiddleware loads the account: the request works on its own copy
DeleteBegin(q, d) ==
    /\ delReq[q].pc = "idle"
    /\ delReq' = [delReq EXCEPT ![q] = [pc |-> "authed", doc |-> d, user |-> users]]
    /\ UNCHANGED <<env, documents, users, uploadReq, task, procReq, history, svcVars, topicVars, storeVars, simVars, cmpVars>>

\* Document.findOne({_id, userId}); if (!document) return res.status(404)
DeleteFind(q) ==
    /\ delReq[q].pc = "authed"
    /\ LET d == delReq[q].doc
       IN  delReq' = [delReq EXCEPT ![q] =
                         IF d \in DOMAIN documents
                         THEN [pc |-> "found", doc |-> d, user |-> delReq[q].user,
                               fileSize |-> documents[d].fileSize]
                         ELSE [pc |-> "responded", doc |-> d, code |-> 404]]
    /\ UNCHANGED <<env, documents, users, uploadReq, task, procReq, history, svcVars, topicVars, storeVars, simVars, cmpVars>>

\* req.user.documentsUploaded -= 1; req.user.storageUsed -= fileSize;
\* await req.user.save(): the validators (min: 0) run, then the changed
\* paths are written as they are in memory
DeleteSaveUser(q) ==
    /\ delReq[q].pc = "found"
    /\ LET user == [documentsUploaded |-> delReq[q].user.documentsUploaded - 1,
                    storageUsed |-> delReq[q].user.storageUsed - delReq[q].fileSize]
           valid == user.documentsUploaded >= 0 /\ user.storageUsed >= 0
       IN  \/ /\ valid
              /\ users' = user
              /\ delReq' = [delReq EXCEPT ![q] =
                               [pc |-> "userSaved", doc |-> delReq[q].doc,
                                user |-> user, fileSize |-> delReq[q].fileSize]]
           \/ \* a ValidationError: the error handler answers 400
              /\ ~valid
              /\ users' = users
              /\ delReq' = [delReq EXCEPT ![q] =
                               [pc |-> "responded", doc |-> delReq[q].doc, code |-> 400]]
           \/ \* the save throws: asyncHandler passes the error on
              /\ users' = users
              /\ delReq' = [delReq EXCEPT ![q] =
                               [pc |-> "responded", doc |-> delReq[q].doc, code |-> 500]]
    /\ UNCHANGED <<env, documents, uploadReq, task, procReq, history, svcVars, topicVars, storeVars, simVars, cmpVars>>

\* Document.findByIdAndDelete(id): an id that is not stored is left alone
findByIdAndDelete(docs, d) == [x \in DOMAIN docs \ {d} |-> docs[x]]

\* await Document.findByIdAndDelete(document._id); res.json({success: true})
DeleteRemove(q) ==
    /\ delReq[q].pc = "userSaved"
    /\ \/ /\ documents' = findByIdAndDelete(documents, delReq[q].doc)
          /\ delReq' = [delReq EXCEPT ![q] =
                           [pc |-> "responded", doc |-> delReq[q].doc, code |-> 200,
                            taskWas |-> task[delReq[q].doc].pc]]
       \/ \* the delete throws: asyncHandler passes the error on
          /\ documents' = documents
          /\ delReq' = [delReq EXCEPT ![q] =
                           [pc |-> "responded", doc |-> delReq[q].doc, code |-> 500]]
    /\ UNCHANGED <<env, users, uploadReq, task, procReq, history, svcVars, topicVars, storeVars, simVars, cmpVars>>

Next ==
    \/ \E d \in Docs :
          \/ UploadBegin(d)
          \/ UploadNoFile(d)
          \/ UploadSaveDocument(d)
          \/ UploadSaveUser(d)
          \/ UploadRespond(d)
          \/ TaskSetProcessing(d)
          \/ TaskAnalyze(d)
          \/ TaskEmbed(d)
          \/ TaskSetCompleted(d)
          \/ TaskCatch(d)
    \/ \E r \in Requests :
          \/ ProcFind(r)
          \/ ProcSave(r)
          \/ ProcTimer(r)

Spec == Init /\ [][Next]_vars

(***************************************************************************)
(* An upload, its background task and DELETE requests on the document      *)
(***************************************************************************)
DeleteNext ==
    \/ \E d \in Docs :
          \/ UploadBegin(d)
          \/ UploadNoFile(d)
          \/ UploadSaveDocument(d)
          \/ UploadSaveUser(d)
          \/ UploadRespond(d)
          \/ TaskSetProcessing(d)
          \/ TaskAnalyze(d)
          \/ TaskEmbed(d)
          \/ TaskSetCompleted(d)
          \/ TaskCatch(d)
    \/ \E q \in DeleteRequests :
          \/ \E d \in Docs : DeleteBegin(q, d)
          \/ DeleteFind(q)
          \/ DeleteSaveUser(q)
          \/ DeleteRemove(q)

SpecDelete == Init /\ [][DeleteNext]_vars

(***************************************************************************)
(* The upload and DELETE requests of one account: the usage counters       *)
(***************************************************************************)
\* documents the account uploads
MaxAccountDocs == 2

AccountDocs == 1..MaxAccountDocs

AccountInit ==
    /\ env = [key |-> FALSE]
    /\ documents = <<>>
    /\ users = [documentsUploaded |-> 0, storageUsed |-> 0]
    /\ uploadReq = [d \in AccountDocs |-> UploadIdle]
    /\ task = [d \in AccountDocs |-> TaskNone]
    /\ procReq = [r \in Requests |-> ProcIdle]
    /\ delReq = [q \in DeleteRequests |-> DeleteIdle]
    /\ history = [d \in AccountDocs |-> HistoryInit]
    /\ StoreIdle
    /\ SimIdle
    /\ CmpIdle
    /\ SvcIdle
    /\ TopicInitIdle

\* the background task that an upload starts never touches the account
AccountNext ==
    \/ \E d \in AccountDocs :
          \/ UploadBegin(d)
          \/ UploadNoFile(d)
          \/ UploadSaveDocument(d)
          \/ UploadSaveUser(d)
          \/ UploadRespond(d)
    \/ \E q \in DeleteRequests :
          \/ \E d \in AccountDocs : DeleteBegin(q, d)
          \/ DeleteFind(q)
          \/ DeleteSaveUser(q)
          \/ DeleteRemove(q)

SpecAccount == AccountInit /\ [][AccountNext]_vars

(***************************************************************************)
(* Properties                                                              *)
(***************************************************************************)
TaskActive == {"setProcessing", "analyze", "embed", "setCompleted", "catch"}

\* a request to the re-process route has loaded document d
RouteTouched(d) ==
    \E r \in Requests : procReq[r].pc \in {"loaded", "timer", "done", "rejected"}
                            /\ procReq[r].doc = d

\* analysis runs of document d that have started and not ended
InFlight(d) ==
    (IF task[d].pc \in TaskActive THEN 1 ELSE 0)
        + Cardinality({r \in Requests : procReq[r].pc = "timer" /\ procReq[r].doc = d})

AnalysisOf(doc) == [f \in AnalysisFields |-> doc[f]]

\* C1: however the start-processing invocations of a document interleave,
\* at most one analysis run of it is in flight at any time and at most one
\* analysis run of it is ever performed.
C1_SingleAnalysisRun ==
    \A d \in Docs : InFlight(d) <= 1 /\ history[d].runs <= 1

\* C2: the stored status of a document changes only along pending ->
\* processing, processing -> completed and processing -> failed.
C2_AllowedTransitions ==
    [][\A d \in DOMAIN documents \cap DOMAIN documents' :
          documents'[d].processingStatus # documents[d].processingStatus
              => <<documents[d].processingStatus, documents'[d].processingStatus>>
                     \in {<<"pending", "processing">>, <<"processing", "completed">>,
                          <<"processing", "failed">>}]_vars

\* C3: once the background task of a document has ended, and no re-process
\* request has loaded the document, the document is not left in 'processing':
\* a document that entered 'processing' has reached 'completed' or 'failed'.
C3_ProcessingEnds ==
    \A d \in DOMAIN documents :
        (task[d].pc \in TaskEnded /\ ~RouteTouched(d))
            => documents[d].processingStatus # "processing"

\* C4: when the background task of a document ended through its failure
\* path, and no re-process request has loaded the document, the status is
\* 'failed' and the analysis fields are what they were before the task.
C4_FailureLeavesFailed ==
    \A d \in DOMAIN documents :
        (task[d].pc \in {"failed", "rejected"} /\ ~RouteTouched(d))
            => /\ documents[d].processingStatus = "failed"
               /\ AnalysisOf(documents[d]) = AnalysisOf(history[d].before)

\* C5: a document whose status is 'completed' has had every analysis field
\* written: summary, sentiment, keywords, topics, entities, embeddings and
\* reading time.
C5_CompletedHasFullAnalysis ==
    \A d \in DOMAIN documents :
        documents[d].processingStatus = "completed"
            => history[d].written = AnalysisFields

RemotePathFailed ==
    \/ ~svcKey
    \/ svcCompletion.kind \in {"throws", "empty", "text"}
    \/ svcCompletion.kind = "json" /\ svcCompletion.value.t = "null"

\* C7: analyzeDocument never fails to its caller: for every outcome of the
\* remote call it returns an analysis with all its fields, and when the
\* remote path is not taken or fails the analysis is the simulated one.
C7_AnalyzeAlwaysReturns ==
    svcAnalysis # NotCalled
        => /\ svcAnalysis.outcome = "returned"
           /\ DOMAIN svcAnalysis.value =
                  {"summary", "sentiment", "keywords", "topics", "entities",
                   "readingTime", "complexity", "language"}
           /\ RemotePathFailed
                  => svcAnalysis.value = generateSimulatedAnalysis(svcText, svcFileName)

\* C7 witness: the remote call threw and the simulated analysis came back
C7_Witness ==
    /\ svcKey /\ svcCompletion.kind = "throws"
    /\ svcAnalysis = Returned(generateSimulatedAnalysis(svcText, svcFileName))

\* C8: generateEmbeddings returns a vector of exactly 1536 entries for every
\* outcome of the remote call.
C8_EmbeddingsLength ==
    svcEmbeddings # NotCalled
        => /\ svcEmbeddings.outcome = "returned"
           /\ svcEmbeddings.value.len = EmbeddingDimensions

\* C9: no stored document holds embeddings of a length other than 1536
\* (the empty default apart).
C9_StoredEmbeddingsLength ==
    \A d \in DOMAIN documents :
        documents[d].embeddings.len \in {0, EmbeddingDimensions}

\* C10: after any sequence of addTimelineEntry calls with sentiments in
\* [-1, 1] the topic's popularityScore is an integer from 0 to 100.
C10_PopularityInRange ==
    topic.trendData.popularityScore \in 0..100

\* C10 witness: entries were added to a topic of more than 25 entries and
\* the score is at the top of its range
C10_Witness ==
    /\ topicAdds >= 2
    /\ Len(topic.timeline) > 25
    /\ topic.trendData.popularityScore = 100

\* C13: no error escapes a background task: neither processDocumentAI nor
\* the delayed completion callback of the re-process route ever ends with
\* an unhandled rejection.
C13_NoUnhandledRejection ==
    /\ \A d \in Docs : task[d].pc # "rejected"
    /\ \A r \in Requests : procReq[r].pc # "rejected"

\* C14: when a document is 'completed', every topic of its analysis has a
\* stored Topic of the document's owner whose timeline holds an entry
\* referencing the document.
C14_TopicsRecorded ==
    \A d \in DOMAIN documents :
        documents[d].processingStatus = "completed"
            => \A i \in DOMAIN documents[d].topics :
                  \E k \in DOMAIN topicStore :
                      /\ topicStore[k].userId = documents[d].userId
                      /\ JWord(topicStore[k].name) = documents[d].topics[i]
                      /\ \E e \in DOMAIN topicStore[k].timeline :
                            topicStore[k].timeline[e].documentId = d

(***************************************************************************)
(* SpecTopicStore: the topics collection.  Topics are created under the    *)
(* schema's validation and the unique index { userId, name }; tasks add a  *)
(* timeline entry to a stored topic by reading it, calling                 *)
(* addTimelineEntry on the copy in memory and saving the copy.             *)
(*                                                                         *)
(* A stored topic is [userId, name, timeline, trendData, v]; v is the      *)
(* version key.  A name is a sequence of characters.                       *)
(***************************************************************************)
MaxCreates == 3

MaxAddTasks == 2

Owners == {"u1", "u2"}

\* "ai", "ai " and " "
TopicNames == { <<"a", "i">>, <<"a", "i", " ">>, <<" ">> }

AddTasks == 1..MaxAddTasks

\* the schema option trim: true (String.prototype.trim on the name)
RECURSIVE trim(_)
trim(name) ==
    IF Len(name) = 0 THEN name
    ELSE IF name[1] = " " THEN trim(Tail(name))
    ELSE IF name[Len(name)] = " " THEN trim(SubSeq(name, 1, Len(name) - 1))
    ELSE name

\* a unique index that covers the name alone
DuplicateKeyNameOnly(store, userId, name) ==
    \E j \in DOMAIN store : store[j].name = name

\* the unique index { userId: 1, name: 1 }: a stored topic holds the key
DuplicateKey(store, userId, name) ==
    \E j \in DOMAIN store : store[j].userId = userId /\ store[j].name = name

NewTopic(userId, name) ==
    [userId |-> userId, name |-> name, timeline |-> <<>>,
     trendData |-> [frequency |-> 0, sentimentTrend |-> <<>>, popularityScore |-> 0],
     v |-> 0]

AddIdle == [pc |-> "idle"]

NoCreate == [outcome |-> "none"]

StoreInit ==
    /\ topicStore = <<>>
    /\ topicReq = [creates |-> 0, lastCreate |-> NoCreate,
                   adds |-> [k \in AddTasks |-> AddIdle]]
    /\ SvcIdle
    /\ TopicInitIdle
    /\ PipeIdle
    /\ SimIdle
    /\ CmpIdle

\* new Topic({userId, name}).save(): the name is trimmed and required, and
\* the insert is refused when the index already holds the key
TopicCreate ==
    /\ topicReq.creates < MaxCreates
    /\ \E userId \in Owners, given \in TopicNames :
          LET name == trim(given)
              outcome == IF Len(name) = 0 THEN "invalid"
                         ELSE IF DuplicateKey(topicStore, userId, name) THEN "conflict"
                         ELSE "created"
          IN  /\ topicStore' = IF outcome = "created"
                               THEN Append(topicStore, NewTopic(userId, name))
                               ELSE topicStore
              /\ topicReq' = [topicReq EXCEPT
                                 !.creates = @ + 1,
                                 !.lastCreate =
                                     [outcome |-> outcome, userId |-> userId,
                                      given |-> given,
                                      before |-> [j \in DOMAIN topicStore |->
                                                     <<topicStore[j].userId,
                                                       topicStore[j].name>>]]]
    /\ UNCHANGED <<svcVars, topicVars, pipeVars, simVars, cmpVars>>

\* a task reads a stored topic: Topic.findOne(...)
AddRead(k) ==
    /\ topicReq.adds[k].pc = "idle"
    /\ \E i \in DOMAIN topicStore :
          topicReq' = [topicReq EXCEPT !.adds[k] =
                          [pc |-> "read", index |-> i, topic |-> topicStore[i]]]
    /\ UNCHANGED <<topicStore, svcVars, topicVars, pipeVars, simVars, cmpVars>>

\* topic.addTimelineEntry(entry); await topic.save().  The save writes the
\* timeline and trendData held in memory.  When the stored topic was saved
\* by another task since it was read, the save either is refused (version
\* conflict) or overwrites what the other task stored.
AddSave(k) ==
    /\ topicReq.adds[k].pc = "read"
    /\ LET i == topicReq.adds[k].index
           changed == addTimelineEntry(topicReq.adds[k].topic,
                          [documentId |-> k, date |-> k, sentiment |-> Frac(1, 1)])
           written == [changed EXCEPT !.v = topicStore[i].v + 1]
       IN  \/ /\ topicStore[i].v = topicReq.adds[k].topic.v
              /\ topicStore' = [topicStore EXCEPT ![i] = written]
              /\ topicReq' = [topicReq EXCEPT !.adds[k] =
                                 [pc |-> "saved", index |-> i, topic |-> written]]
           \/ /\ topicStore[i].v # topicReq.adds[k].topic.v
              /\ topicStore' = [topicStore EXCEPT ![i] = written]
              /\ topicReq' = [topicReq EXCEPT !.adds[k] =
                                 [pc |-> "saved", index |-> i, topic |-> written]]
           \/ /\ topicStore[i].v # topicReq.adds[k].topic.v
              /\ topicStore' = topicStore
              /\ topicReq' = [topicReq EXCEPT !.adds[k] =
                                 [pc |-> "failed", index |-> i, topic |-> changed]]
    /\ UNCHANGED <<svcVars, topicVars, pipeVars, simVars, cmpVars>>

StoreNext ==
    \/ TopicCreate
    \/ \E k \in AddTasks : AddRead(k) \/ AddSave(k)

SpecTopicStore == StoreInit /\ [][StoreNext]_vars

\* C11: when the tasks that add a timeline entry to a topic have all
\* finished, the stored timeline of the topic holds the entry of each of
\* them and trendData.frequency is the number of entries added.
C11_NoLostUpdate ==
    (\A k \in AddTasks : topicReq.adds[k].pc \in {"saved", "failed"})
        => \A i \in DOMAIN topicStore :
              LET tasks == {k \in AddTasks : topicReq.adds[k].index = i}
              IN  /\ \A k \in tasks :
                        \E e \in DOMAIN topicStore[i].timeline :
                            topicStore[i].timeline[e].documentId = k
                  /\ topicStore[i].trendData.frequency = Cardinality(tasks)

\* C12: for each owner at most one topic is stored per name; creating a
\* topic whose owner and name are already stored is refused as a conflict
\* and stores nothing, and a name stored under another owner only is accepted.
C12_UniqueTopicPerOwner ==
    /\ \A i, j \in DOMAIN topicStore :
          (topicStore[i].userId = topicStore[j].userId
              /\ topicStore[i].name = topicStore[j].name) => i = j
    /\ topicReq.lastCreate # NoCreate
          => LET c == topicReq.lastCreate
                 key == <<c.userId, trim(c.given)>>
                 stored == \E j \in DOMAIN c.before : c.before[j] = key
             IN  /\ stored => c.outcome = "conflict"
                 /\ c.outcome = "conflict" => Len(topicStore) = Len(c.before)
                 /\ (~stored /\ Len(trim(c.given)) > 0)
                       => /\ c.outcome = "created"
                          /\ Len(topicStore) = Len(c.before) + 1
                          /\ <<topicStore[Len(topicStore)].userId,
                               topicStore[Len(topicStore)].name>> = key

\* C12 witness: the last creation was refused as a conflict while the same
\* name is stored under both owners
C12_Witness ==
    /\ topicReq.lastCreate # NoCreate
    /\ topicReq.lastCreate.outcome = "conflict"
    /\ \E i, j \in DOMAIN topicStore :
          /\ topicStore[i].name = topicStore[j].name
          /\ topicStore[i].userId # topicStore[j].userId

(***************************************************************************)
(* Properties of the analysis returned by analyzeDocument                  *)
(***************************************************************************)
\* the remote call answered with JSON from which the result is built
RemoteSucceeded == ~RemotePathFailed

InUnitRange(x, lo) ==
    x.t = "num" /\ lo * x.d <= x.n /\ x.n <= x.d

\* C18: every analysis returned by analyzeDocument has sentiment.score in
\* [-1, 1], sentiment.label positive, negative or neutral, and
\* sentiment.confidence in [0, 1].
C18_SentimentRanges ==
    svcAnalysis.outcome = "returned"
        => LET s == svcAnalysis.value.sentiment
           IN  /\ InUnitRange(s.score, -1)
               /\ s.label \in {JStr("positive"), JStr("negative"), JStr("neutral")}
               /\ InUnitRange(s.confidence, 0)

\* the list the remote JSON holds under field f; none when the field is
\* missing or not a list
SourceList(f) ==
    LET v == svcCompletion.value
    IN  IF v.t = "obj"
        THEN IF f \in DOMAIN v.o
             THEN IF v.o[f].t = "arr" THEN v.o[f].a ELSE <<>>
             ELSE <<>>
        ELSE <<>>

IsCappedPrefix(result, source, cap) ==
    /\ Len(result) = (IF Len(source) < cap THEN Len(source) ELSE cap)
    /\ \A i \in 1..Len(result) : result[i] = source[i]

\* C19: the keywords, topics and entities built from a remote response are
\* the prefixes of the response's lists, in their order, of at most 10, 5
\* and 10 entries (none for a field that is missing or not a list); the
\* lists of the fallback analysis stay within the same caps.
C19_ListsArePrefixes ==
    svcAnalysis.outcome = "returned"
        => LET a == svcAnalysis.value
           IN  IF RemoteSucceeded
               THEN /\ IsCappedPrefix(a.keywords, SourceList("keywords"), 10)
                    /\ IsCappedPrefix(a.topics, SourceList("topics"), 5)
                    /\ IsCappedPrefix(a.entities, SourceList("entities"), 10)
               ELSE /\ Len(a.keywords) <= 10
                    /\ Len(a.topics) <= 5
                    /\ Len(a.entities) <= 10

\* C19 witness: a response with 12 keywords, 6 topics and 11 entities was
\* cut to 10, 5 and 10
C19_Witness ==
    /\ svcKey /\ svcCompletion = [kind |-> "json", value |-> PayloadLong]
    /\ svcAnalysis.outcome = "returned"
    /\ Len(svcAnalysis.value.keywords) = 10
    /\ Len(svcAnalysis.value.topics) = 5
    /\ Len(svcAnalysis.value.entities) = 10

(***************************************************************************)
(* Properties of the popularity score                                      *)
(***************************************************************************)
RECURSIVE SumOver(_, _)
SumOver(S, f) ==
    IF S = {} THEN 0
    ELSE LET x == CHOOSE y \in S : TRUE IN f[x] + SumOver(S \ {x}, f)

\* The scores the formula round(min(2n, 50) + (avg + 1) * 25) allows for a
\* timeline: avg is the mean sentiment of min(5, n) entries none of which is
\* older than an entry left out.  Sentiments are counted in halves.
FormulaScores(tl) ==
    LET n == Len(tl)
        k == IF n < 5 THEN n ELSE 5
        idx == 1..n
        atLeast(d) == {i \in idx : tl[i].date >= d}
        D == CHOOSE d \in {tl[i].date : i \in idx} :
                /\ Cardinality(atLeast(d)) >= k
                /\ \A e \in {tl[i].date : i \in idx} :
                      Cardinality(atLeast(e)) >= k => e <= d
        above == {i \in idx : tl[i].date > D}
        tied == {i \in idx : tl[i].date = D}
        need == k - Cardinality(above)
        halves == [i \in idx |-> (2 * tl[i].sentiment.n) \div tl[i].sentiment.d]
        values == {halves[i] : i \in tied}
        choices == {c \in [values -> 0..need] :
                       /\ SumOver(values, c) = need
                       /\ \A v \in values :
                             c[v] <= Cardinality({i \in tied : halves[i] = v})}
        activity == IF 2 * n < 50 THEN 2 * n ELSE 50
    IN  { LET total == SumOver(above, halves)
                           + SumOver(values, [v \in values |-> v * c[v]])
              \* activity + (total / (2k) + 1) * 25 as a quotient over 2k
              num == (activity + 25) * 2 * k + 25 * total
          IN  (2 * num + 2 * k) \div (4 * k) : c \in choices }

\* C20: after each addTimelineEntry, frequency is the timeline length n and
\* popularityScore = round(min(2n, 50) + (avg + 1) * 25), avg being the mean
\* sentiment of the min(5, n) entries with the most recent dates.
C20_PopularityFormula ==
    Len(topic.timeline) > 0
        => /\ topic.trendData.frequency = Len(topic.timeline)
           /\ topic.trendData.popularityScore \in FormulaScores(topic.timeline)

\* C20 witness: six entries on a new topic, sentiments 1, 1, 1, 1, 1, -1
\* from the oldest to the newest date, give frequency 6 and score 52
C20_Witness ==
    /\ topicAdds = 6
    /\ Len(topic.timeline) = 6
    /\ topic.timeline[1].sentiment = Frac(-1, 1)
    /\ \A i \in 2..6 : /\ topic.timeline[i].sentiment = Frac(1, 1)
                       /\ topic.timeline[i].date < topic.timeline[1].date
    /\ topic.trendData.frequency = 6
    /\ topic.trendData.popularityScore = 52

(***************************************************************************)
(* IEEE 754 double arithmetic, as far as calculateSimilarity needs it      *)
(*                                                                         *)
(* A natural number too large for a machine integer is the sequence of its *)
(* digits in base 2^15, least significant first, without leading zeros.    *)
(* A double is NaN or [neg, m, e], standing for (-1)^neg * m * 2^e with    *)
(* m = 0 or 2^52 <= m < 2^53.  An integer of the loop is kept as it is:    *)
(* the sums of the loop are exact for the small integers used here.        *)
(***************************************************************************)
LimbBase == 2 ^ 15

MantissaBits == 53

RECURSIVE BigOf(_)
BigOf(n) == IF n = 0 THEN <<>> ELSE <<n % LimbBase>> \o BigOf(n \div LimbBase)

RECURSIVE BigAddCarry(_, _, _)
BigAddCarry(a, b, carry) ==
    IF Len(a) = 0 /\ Len(b) = 0
    THEN BigOf(carry)
    ELSE LET x == IF Len(a) = 0 THEN 0 ELSE a[1]
             y == IF Len(b) = 0 THEN 0 ELSE b[1]
             sum == x + y + carry
         IN  <<sum % LimbBase>>
                 \o BigAddCarry(IF Len(a) = 0 THEN a ELSE Tail(a),
                                IF Len(b) = 0 THEN b ELSE Tail(b),
                                sum \div LimbBase)

BigAdd(a, b) == BigAddCarry(a, b, 0)

\* a * s + carry for a digit s
RECURSIVE BigMulDigit(_, _, _)
BigMulDigit(a, s, carry) ==
    IF s = 0 THEN BigOf(carry)
    ELSE IF Len(a) = 0 THEN BigOf(carry)
    ELSE LET p == a[1] * s + carry
         IN  <<p % LimbBase>> \o BigMulDigit(Tail(a), s, p \div LimbBase)

\* a * 2^15
BigShiftDigit(a) == IF Len(a) = 0 THEN a ELSE <<0>> \o a

RECURSIVE BigMul(_, _)
BigMul(a, b) ==
    IF Len(a) = 0 \/ Len(b) = 0 THEN <<>>
    ELSE BigAdd(BigMulDigit(a, b[1], 0), BigShiftDigit(BigMul(a, Tail(b))))

\* a <= b
RECURSIVE BigLeq(_, _)
BigLeq(a, b) ==
    IF Len(a) # Len(b) THEN Len(a) < Len(b)
    ELSE IF Len(a) = 0 THEN TRUE
    ELSE IF a[Len(a)] # b[Len(b)] THEN a[Len(a)] < b[Len(b)]
    ELSE BigLeq(SubSeq(a, 1, Len(a) - 1), SubSeq(b, 1, Len(b) - 1))

BigPow2(k) ==
    [i \in 1..(k \div 15 + 1) |-> IF i = k \div 15 + 1 THEN 2 ^ (k % 15) ELSE 0]

BigShl(a, k) == BigMul(a, BigPow2(k))

RECURSIVE BitLength(_)
BitLength(n) == IF n = 0 THEN 0 ELSE 1 + BitLength(n \div 2)

\* the largest m0 + k, k a sum of powers 2^lo .. 2^hi, whose square is at
\* most N: the bits are decided from hi down to lo
RECURSIVE SqrtBits(_, _, _, _)
SqrtBits(N, m0, hi, lo) ==
    IF hi < lo THEN m0
    ELSE IF hi = lo
    THEN LET c == BigAdd(m0, BigPow2(hi))
         IN  IF BigLeq(BigMul(c, c), N) THEN c ELSE m0
    ELSE LET mid == (hi + lo) \div 2
             upper == SqrtBits(N, m0, hi, mid + 1)
         IN  IF BigLeq(upper, N) THEN SqrtBits(N, upper, mid, lo) ELSE upper

\* the largest q0 + k, k a sum of powers 2^lo .. 2^hi, with (q0 + k) * den
\* at most num: the bits are decided from hi down to lo
RECURSIVE DivBits(_, _, _, _, _)
DivBits(num, den, q0, hi, lo) ==
    IF hi < lo THEN q0
    ELSE IF hi = lo
    THEN LET c == BigAdd(q0, BigPow2(hi))
         IN  IF BigLeq(BigMul(c, den), num) THEN c ELSE q0
    ELSE LET mid == (hi + lo) \div 2
             upper == DivBits(num, den, q0, hi, mid + 1)
         IN  IF BigLeq(upper, num) THEN DivBits(num, den, upper, mid, lo) ELSE upper

NaN == [t |-> "nan"]

Double(neg, m, e) == [t |-> "double", neg |-> neg, m |-> m, e |-> e]

DoubleZero == Double(FALSE, <<>>, 0)

Infinity(neg) == [t |-> "infinity", neg |-> neg]

DoubleOne == Double(FALSE, BigPow2(MantissaBits - 1), 1 - MantissaBits)

\* a mantissa that reached 2^53 by rounding up is 2^52 with the next exponent
Renormalize(neg, m, e) ==
    IF m = BigPow2(MantissaBits)
    THEN Double(neg, BigPow2(MantissaBits - 1), e + 1)
    ELSE Double(neg, m, e)

\* q, or q + 1 when twice the exact value lies above 2q + 1 (scaled by
\* unit), or on it with q odd: round to nearest, ties to even
RoundNearestEven(q, twice, unit) ==
    LET mid == BigMul(BigAdd(BigShl(q, 1), BigOf(1)), unit)
        odd == Len(q) > 0 /\ q[1] % 2 = 1
    IN  IF mid = twice THEN (IF odd THEN BigAdd(q, BigOf(1)) ELSE q)
        ELSE IF BigLeq(mid, twice) THEN BigAdd(q, BigOf(1))
        ELSE q

\* Math.sqrt(n) for an integer n >= 0: the double nearest to the root
sqrt(n) ==
    IF n = 0 THEN DoubleZero ELSE
    LET e4 == (BitLength(n) - 1) \div 2
        s == (MantissaBits - 1) - e4
        N == BigShl(BigOf(n), 2 * s)
        m == SqrtBits(N, <<>>, MantissaBits - 1, 0)
        up == ~BigLeq(N, BigAdd(BigMul(m, m), m))
    IN  Renormalize(FALSE, IF up THEN BigAdd(m, BigOf(1)) ELSE m, -s)

\* x * y for doubles x, y >= 0
DoubleMul(x, y) ==
    IF x = DoubleZero \/ y = DoubleZero THEN DoubleZero ELSE
    LET P == BigMul(x.m, y.m)
        sh == IF BigLeq(BigPow2(2 * MantissaBits - 1), P)
              THEN MantissaBits ELSE MantissaBits - 1
        q == DivBits(P, BigPow2(sh), <<>>, MantissaBits - 1, 0)
    IN  Renormalize(FALSE, RoundNearestEven(q, BigShl(P, 1), BigPow2(sh)),
                    x.e + y.e + sh)

\* d / y for an integer d and a double y >= 0
DoubleDiv(d, y) ==
    IF y = DoubleZero THEN (IF d = 0 THEN NaN ELSE Infinity(d < 0))
    ELSE IF d = 0 THEN DoubleZero
    ELSE LET dd == IF d < 0 THEN -d ELSE d
             u0 == (2 * MantissaBits - 1) - BitLength(dd)
             u == IF BigLeq(BigShl(y.m, MantissaBits - 1), BigShl(BigOf(dd), u0))
                  THEN u0 ELSE u0 + 1
             num == BigShl(BigOf(dd), u)
             q == DivBits(num, y.m, <<>>, MantissaBits - 1, 0)
         IN  Renormalize(d < 0, RoundNearestEven(q, BigShl(num, 1), y.m),
                         -u - y.e)

(***************************************************************************)
(* calculateSimilarity                                                     *)
(***************************************************************************)
IntNum(n) == [t |-> "int", n |-> n]

\* array[i] with the index counted from 0: undefined past the end
ElementAt(array, i) == IF i < Len(array) THEN IntNum(array[i + 1]) ELSE JUndefined

\* x * y and x + y of the loop: undefined converts to NaN, NaN spreads
NumMul(x, y) ==
    IF x.t = "int" /\ y.t = "int" THEN IntNum(x.n * y.n) ELSE NaN

NumAdd(x, y) ==
    IF x.t = "int" /\ y.t = "int" THEN IntNum(x.n + y.n) ELSE NaN

RECURSIVE SimilarityLoop(_, _, _, _)
SimilarityLoop(a, b, i, acc) ==
    IF ~(i < Len(a)) THEN acc
    ELSE SimilarityLoop(a, b, i + 1,
             [dotProduct |-> NumAdd(acc.dotProduct,
                                    NumMul(ElementAt(a, i), ElementAt(b, i))),
              normA |-> NumAdd(acc.normA,
                               NumMul(ElementAt(a, i), ElementAt(a, i))),
              normB |-> NumAdd(acc.normB,
                               NumMul(ElementAt(b, i), ElementAt(b, i)))])

calculateSimilarity(this, otherDocument) ==
    IF this.embeddings = JUndefined \/ otherDocument.embeddings = JUndefined
    THEN DoubleZero
    ELSE LET sums == SimilarityLoop(this.embeddings.a, otherDocument.embeddings.a, 0,
                         [dotProduct |-> IntNum(0), normA |-> IntNum(0),
                          normB |-> IntNum(0)])
         IN  IF sums.normA = IntNum(0) \/ sums.normB = IntNum(0) THEN DoubleZero
             ELSE IF sums.dotProduct = NaN \/ sums.normA = NaN \/ sums.normB = NaN
             THEN NaN
             ELSE DoubleDiv(sums.dotProduct.n,
                            DoubleMul(sqrt(sums.normA.n), sqrt(sums.normB.n)))

(***************************************************************************)
(* Specification SpecSimilarity: one call of calculateSimilarity           *)
(***************************************************************************)
MaxDimension == 2

Components == {-1, 0, 1, 2}

SimEmbeddings ==
    {JUndefined} \cup
    {JArr(v) : v \in UNION {[1..n -> Components] : n \in 0..MaxDimension}}

SimDocuments == {[embeddings |-> e] : e \in SimEmbeddings}

SimInit ==
    /\ simThis \in SimDocuments
    /\ simOther \in SimDocuments
    /\ simResult = NotCalled
    /\ SvcIdle /\ TopicInitIdle /\ PipeIdle /\ StoreIdle
    /\ CmpIdle

SimCalculate ==
    /\ simResult = NotCalled
    /\ simResult' = Returned(calculateSimilarity(simThis, simOther))
    /\ UNCHANGED <<simThis, simOther, svcVars, topicVars, pipeVars, storeVars, cmpVars>>

SimNext == SimCalculate

SpecSimilarity == SimInit /\ [][SimNext]_vars

\* the embeddings are missing, empty or of norm zero
Degenerate(d) ==
    \/ d.embeddings = JUndefined
    \/ \A i \in 1..Len(d.embeddings.a) : d.embeddings.a[i] = 0

\* C16: calculateSimilarity raises nothing and returns 0 whenever the
\* embeddings of the receiver or of the argument are missing, empty or of
\* norm zero
C16_DegenerateGivesZero ==
    simResult # NotCalled =>
        /\ simResult.outcome = "returned"
        /\ (Degenerate(simThis) \/ Degenerate(simOther))
               => simResult.value = DoubleZero

\* C17: the similarity of a document with itself is exactly 1 when its
\* embeddings are a non-zero vector
C17_SelfSimilarityIsOne ==
    (simResult # NotCalled /\ simThis = simOther /\ ~Degenerate(simThis))
        => simResult.value = DoubleOne

(***************************************************************************)
(* Properties of the timeline and its trend data                           *)
(***************************************************************************)
DatesDescending(tl) == \A i \in 1..(Len(tl) - 1) : tl[i].date >= tl[i + 1].date

\* new is old with one entry put in after every entry of its date or a later
\* one and before every entry of an earlier date
StablyInserted(old, new) ==
    /\ Len(new) = Len(old) + 1
    /\ \E p \in 0..Len(old) :
          /\ SubSeq(new, 1, p) = SubSeq(old, 1, p)
          /\ SubSeq(new, p + 2, Len(new)) = SubSeq(old, p + 1, Len(old))
          /\ \A i \in 1..p : old[i].date >= new[p + 1].date
          /\ \A i \in (p + 1)..Len(old) : old[i].date < new[p + 1].date

\* C21: every addTimelineEntry leaves the timeline ordered by date, newest
\* first, and puts the new entry behind the entries of its own date that were
\* added before it, whatever the order in which the dates arrive
C21_TimelineSortedStable ==
    [][DatesDescending(topic'.timeline)
         /\ StablyInserted(topic.timeline, topic'.timeline)]_vars

\* C21 witness: three entries added to a new topic, the newest date in front
\* and two entries of one earlier date with different sentiments behind it
C21_Witness ==
    /\ topicAdds = 3
    /\ Len(topic.timeline) = 3
    /\ topic.timeline[1].date > topic.timeline[2].date
    /\ topic.timeline[2].date = topic.timeline[3].date
    /\ topic.timeline[2].sentiment # topic.timeline[3].sentiment

\* C22: after every addTimelineEntry, frequency is the length of the timeline
\* and sentimentTrend is the sentiments of its first min(10, length) entries,
\* in the order of the timeline
C22_TrendMirrorsTimeline ==
    LET tl == topic.timeline
        n == IF Len(tl) < 10 THEN Len(tl) ELSE 10
    IN  /\ topic.trendData.frequency = Len(tl)
        /\ Len(topic.trendData.sentimentTrend) = n
        /\ \A i \in 1..n : topic.trendData.sentimentTrend[i] = tl[i].sentiment

\* C22 witness: a timeline of more than 10 entries after an add whose entry
\* went to the front with a sentiment of its own: the trend holds 10 values
C22_Witness ==
    /\ topicAdds >= 1
    /\ Len(topic.timeline) > 10
    /\ Len(topic.trendData.sentimentTrend) = 10
    /\ topic.timeline[1].documentId = "d1"
    /\ topic.timeline[1].sentiment # topic.timeline[Len(topic.timeline)].sentiment

(***************************************************************************)
(* Properties of the simulated analysis                                    *)
(***************************************************************************)
\* The tokens that survive the filters, the one with more occurrences first
\* and, of two with the same number, the one that occurs first in the text
\* first; at most 8 of them.
RankedTokens(text) ==
    LET words == FilteredWords(text)
        tokens == Range(words)
        count(w) == Cardinality({i \in 1..Len(words) : words[i] = w})
        first(w) == CHOOSE i \in 1..Len(words) :
                       words[i] = w /\ \A j \in 1..(i - 1) : words[j] # w
        Before(v, w) ==
            count(v) > count(w) \/ (count(v) = count(w) /\ first(v) < first(w))
        rank(w) == 1 + Cardinality({v \in tokens : Before(v, w)})
        n == IF Cardinality(tokens) < 8 THEN Cardinality(tokens) ELSE 8
    IN  [i \in 1..n |-> CHOOSE w \in tokens : rank(w) = i]

\* C23: the keywords of the simulated analysis are the at most 8 surviving
\* tokens with the most occurrences, in descending order of count, tokens of
\* equal count in the order of their first occurrence, digit tokens included
C23_KeywordsRankedByCount ==
    (svcAnalysis.outcome = "returned" /\ RemotePathFailed)
        => LET ranked == RankedTokens(svcText)
           IN  svcAnalysis.value.keywords =
                   [i \in 1..Len(ranked) |-> JWord(ranked[i])]

\* the fraction x is sign * min(4/5, k / total)
IsCappedShare(x, sign, k, total) ==
    IF 5 * k > 4 * total
    THEN 5 * x.n = sign * 4 * x.d
    ELSE total * x.n = sign * k * x.d

\* C24: with pos and neg the occurrences of the positive and the negative
\* words in the lowercased text, the simulated sentiment is positive with
\* score min(0.8, pos/(pos+neg+1)) when pos > neg, negative with score
\* -min(0.8, neg/(pos+neg+1)) when neg > pos, neutral with score 0 otherwise;
\* confidence is 0.7; so the label has the sign of the score and
\* |score| <= 0.8
C24_SimulatedSentiment ==
    (svcAnalysis.outcome = "returned" /\ RemotePathFailed)
        => LET s == svcAnalysis.value.sentiment
               pos == positiveCount(svcText)
               neg == negativeCount(svcText)
           IN  /\ pos > neg => /\ s.label = JStr("positive")
                               /\ IsCappedShare(s.score, 1, pos, pos + neg + 1)
               /\ neg > pos => /\ s.label = JStr("negative")
                               /\ IsCappedShare(s.score, -1, neg, pos + neg + 1)
               /\ pos = neg => s.label = JStr("neutral") /\ s.score.n = 0
               /\ 10 * s.confidence.n = 7 * s.confidence.d
               /\ s.label = JStr("positive") <=> s.score.n * s.score.d > 0
               /\ s.label = JStr("negative") <=> s.score.n * s.score.d < 0
               /\ 5 * s.score.n <= 4 * s.score.d /\ -4 * s.score.d <= 5 * s.score.n

\* C24 witness: five positive words and no negative one: 5/6 is cut to 0.8
C24_Witness ==
    /\ svcText = TextPraise /\ ~svcKey
    /\ svcAnalysis.outcome = "returned"
    /\ positiveCount(svcText) = 5 /\ negativeCount(svcText) = 0
    /\ svcAnalysis.value.sentiment.score = Frac(4, 5)
    /\ svcAnalysis.value.sentiment.label = JStr("positive")

(***************************************************************************)
(* AIService.compareDocuments                                              *)
(***************************************************************************)
\* a split that yields no word for the empty text
SplitDroppingEmpty(text) == text

\* text.split(/\s+/): the empty text splits into one empty string
Split(text) == IF Len(text) = 0 THEN << <<>> >> ELSE text

\* a / b for integers a >= 0, b >= 0
Divide(a, b) ==
    IF b = 0 THEN (IF a = 0 THEN NaN ELSE Infinity(FALSE)) ELSE Frac(a, b)

compareDocuments(doc1Text, doc2Text) ==
    LET words1 == {toLowerCase(w) : w \in Range(Split(doc1Text))}
        words2 == {toLowerCase(w) : w \in Range(Split(doc2Text))}
        intersection == {x \in words1 : x \in words2}
        union == words1 \cup words2
        similarity == Divide(Cardinality(intersection), Cardinality(union))
    IN  Returned([similarity |-> similarity,
                  differences |->
                      [added |-> <<"Content analysis", "New insights">>,
                       removed |-> <<"Outdated information">>,
                       modified |-> <<"Updated statistics", "Revised conclusions">>],
                  summary |-> Tpl("similar", <<similarity>>)])

(***************************************************************************)
(* Specification SpecCompare: one call of compareDocuments                 *)
(***************************************************************************)
\* "GOOD DOCS, BAD DOCS"
TextShout ==
    << <<"G","O","O","D">>, <<"D","O","C","S",",">>, <<"B","A","D">>,
       <<"D","O","C","S">> >>

CmpTexts == Texts \cup {TextShout}

CmpInit ==
    /\ cmpDoc1Text \in CmpTexts
    /\ cmpDoc2Text \in CmpTexts
    /\ cmpResult = NotCalled
    /\ SvcIdle /\ TopicInitIdle /\ PipeIdle /\ StoreIdle
    /\ SimIdle

CmpCompare ==
    /\ cmpResult = NotCalled
    /\ cmpResult' = compareDocuments(cmpDoc1Text, cmpDoc2Text)
    /\ UNCHANGED <<cmpDoc1Text, cmpDoc2Text, svcVars, topicVars, pipeVars, storeVars, simVars>>

CmpNext == CmpCompare

SpecCompare == CmpInit /\ [][CmpNext]_vars

\* the lowercased words of a text
WordSet(text) ==
    IF text = <<>> THEN {<<>>}
    ELSE {[i \in 1..Len(text[k]) |-> toLowerChar(text[k][i])] : k \in 1..Len(text)}

\* C25: compareDocuments returns as similarity the Jaccard index of the
\* lowercased word sets of the two texts, a number between 0 and 1; no pair
\* of texts, an empty text included, makes it divide by zero
C25_JaccardSimilarity ==
    cmpResult # NotCalled
        => LET A == WordSet(cmpDoc1Text)
               B == WordSet(cmpDoc2Text)
               x == cmpResult.value.similarity
           IN  /\ cmpResult.outcome = "returned"
               /\ x.t = "num"
               /\ A \cup B # {}
               /\ x.n * Cardinality(A \cup B) = Cardinality(A \cap B) * x.d
               /\ 0 <= x.n /\ x.n <= x.d

\* C25 witness: two empty texts compare as 1, and texts that differ in case
\* only compare as 1
C25_Witness ==
    /\ cmpResult # NotCalled
    /\ \/ cmpDoc1Text = <<>> /\ cmpDoc2Text = <<>>
       \/ cmpDoc1Text = TextMixed /\ cmpDoc2Text = TextShout
    /\ cmpResult.value.similarity = Frac(1, 1)

(***************************************************************************)
(* Properties of the stored reading time, entities and usage counters      *)
(***************************************************************************)
\* C26: the reading time that the save hook derives from wordCount at upload
\* is the one the analysis computes and the task stores on completion: no
\* step changes the readingTime of a stored document
C26_ReadingTimeUnchanged ==
    [][\A d \in DOMAIN documents \cap DOMAIN documents' :
          documents'[d].readingTime = documents[d].readingTime]_vars

\* C27: every entity stored on a document has a label of the schema's
\* enumeration, a confidence between 0 and 1 and start and end offsets with
\* start <= end, whether the fallback analyzer or the remote path produced it
C27_StoredEntitiesValid ==
    \A d \in DOMAIN documents :
        \A i \in 1..Len(documents[d].entities) :
            LET e == documents[d].entities[i].o
            IN  /\ {"label", "confidence", "startPos", "endPos"} \subseteq DOMAIN e
                /\ e.label.t = "str" /\ e.label.s \in EntityLabels
                /\ InUnitRange(e.confidence, 0)
                /\ e.startPos.n * e.endPos.d <= e.endPos.n * e.startPos.d

\* every upload and DELETE request that arrived has been answered, none of
\* them with a storage error
RequestsFinished ==
    /\ \A d \in DOMAIN uploadReq :
          /\ uploadReq[d].pc \in {"idle", "responded"}
          /\ uploadReq[d].pc = "responded" => uploadReq[d].code # 500
    /\ \A q \in DOMAIN delReq :
          /\ delReq[q].pc \in {"idle", "responded"}
          /\ delReq[q].pc = "responded" => delReq[q].code # 500

StoredFileSizes == [d \in DOMAIN documents |-> documents[d].fileSize]

\* C28: after any interleaving of upload and delete requests of the account,
\* each working on its own loaded copy of the user record, once all requests
\* have finished documentsUploaded is the number of stored documents and
\* storageUsed the sum of their file sizes; neither counter is ever negative
C28_CountersMatchDocuments ==
    /\ users.documentsUploaded >= 0
    /\ users.storageUsed >= 0
    /\ RequestsFinished
          => /\ users.documentsUploaded = Cardinality(DOMAIN documents)
             /\ users.storageUsed = SumOver(DOMAIN documents, StoredFileSizes)

\* C29: every document that the upload stores with status 'pending' has its
\* background analysis task started: once the upload request has ended, no
\* stored document of it is left without a task, whatever failed between
\* saving the document and starting the task
C29_StoredDocumentHasTask ==
    \A d \in DOMAIN documents :
        uploadReq[d].pc = "responded" => task[d].pc # "none"

\* a DELETE request on the document has removed it and answered 200
Deleted(d) ==
    \E q \in DOMAIN delReq :
        /\ delReq[q].pc = "responded" /\ delReq[q].code = 200
        /\ delReq[q].doc = d

\* the write the task of d is about to make can return normally
TaskWriteReturns(d) ==
    /\ task[d].pc = "setProcessing"
          => ENABLED (TaskSetProcessing(d) /\ task'[d].pc = "analyze")
    /\ task[d].pc = "setCompleted"
          => ENABLED (TaskSetCompleted(d) /\ task'[d].pc = "completed")
    /\ task[d].pc = "catch"
          => ENABLED (TaskCatch(d) /\ task'[d].pc = "failed")

\* C30: deleting a document while its background analysis is in flight is
\* final: the document is absent in every state after the delete was
\* answered, whatever the task writes later, and each later write of the
\* task on the missing document can return without an error
C30_DeleteIsFinal ==
    \A d \in Docs :
        Deleted(d) => /\ d \notin DOMAIN documents
                      /\ TaskWriteReturns(d)

\* C30 witness: the document was removed while its task was in flight, and
\* the task then made its writes and completed
C30_Witness ==
    \E d \in Docs, q \in DOMAIN delReq :
        /\ delReq[q].pc = "responded" /\ delReq[q].code = 200
        /\ delReq[q].doc = d
        /\ delReq[q].taskWas \in {"setProcessing", "analyze", "embed", "setCompleted"}
        /\ task[d].pc = "completed"
        /\ d \notin DOMAIN documents

====
